---------------------------- MODULE Spec2Model ----------------------------
(***************************************************************************)
(* Model of src/mksum.rs (rdiff(rust), signature generation).              *)
(*                                                                         *)
(* The state is what one call of generate_signature can observe or change: *)
(* the caller's SignatureOptions, the basis reader, the signature writer   *)
(* handed in by the caller, the BufWriter that generate_signature wraps    *)
(* around it, and the position of the call.                                *)
(*                                                                         *)
(* A u32 is kept as the pair of its 16-bit halves, [hi, lo], standing for  *)
(* hi * 65536 + lo, so that the whole 32-bit range, the top bit included,  *)
(* is covered by the encoder.                                              *)
(***************************************************************************)
EXTENDS Integers, Sequences, FiniteSets, TLC

VARIABLES
    pc,           \* position of the caller / of generate_signature
    how,          \* how the caller built the options: "none", "default", "literal"
    options,      \* the SignatureOptions value passed by reference
    basis,        \* the bytes the basis reader would deliver
    basis_ok,     \* FALSE: every read of the basis reader returns an error
    basis_reads,  \* number of read calls made on the basis reader
    writer,       \* behaviour of the underlying signature writer
    interrupts,   \* ErrorKind::Interrupted results the writer has returned so far
    buf,          \* contents of the BufWriter's internal buffer
    out,          \* bytes accepted so far by the underlying signature writer
    flush_result, \* result of BufWriter::flush_buf, which Drop discards
    ret           \* what generate_signature returns: "none", "Ok", "Err"

vars == <<pc, how, options, basis, basis_ok, basis_reads, writer, interrupts,
          buf, out, flush_result, ret>>

---------------------------------------------------------------------------
(* Bounds of the model. *)

\* longest basis the caller supplies
MaxBasisLen == 2

\* most Interrupted results a writer returns before it makes progress
MaxInterrupts == 1

---------------------------------------------------------------------------
(* u32 values. *)

U32(h, l) == [hi |-> h, lo |-> l]

\* the u32 with value n, for 0 <= n < 2^31
U32Of(n) == U32(n \div 65536, n % 65536)

U32IsZero(a) == a.hi = 0 /\ a.lo = 0

\* a > n, for a u32 a and a number 0 <= n < 65536
U32Gt(a, n) == a.hi > 0 \/ a.lo > n

---------------------------------------------------------------------------
(* Program constants. *)

\* super::DEFAULT_BLOCK_LEN, used by SignatureOptions::default(); lib.rs is
\* not among the sources, the value is the documented default block length.
DEFAULT_BLOCK_LEN == 2048

\* "Whole Blake2 hash length", as the source states it where it sets the
\* default strong_len.
BLAKE2_HASH_LEN == 8

\* std::io::BufWriter::new allocates DEFAULT_BUF_SIZE = 8 KiB.
DEFAULT_BUF_SIZE == 8192

\* super::magic::SignatureFormat: the variants the sources name.
SignatureFormat == {"Blake2Sig"}

\* `options.magic as u32`: the discriminant of the variant, 'r' 's' 0x01 0x37.
MagicAsU32(fmt) == U32Of(1920139575)

---------------------------------------------------------------------------
(* Inputs. *)

BasisBytes == {0, 255}

RECURSIVE SeqsUpTo(_, _)
SeqsUpTo(S, n) ==
    IF n = 0 THEN {<<>>}
    ELSE LET shorter == SeqsUpTo(S, n - 1)
         IN  shorter \cup {Append(s, x) : s \in {t \in shorter : Len(t) = n - 1}, x \in S}

BasisInputs == SeqsUpTo(BasisBytes, MaxBasisLen)

\* block_len: 0, 1, 2, 2048, 0x01020304, 0x80000000, 0xFFFFFFFF
BlockLenInputs ==
    {U32(0, 0), U32(0, 1), U32(0, 2), U32Of(DEFAULT_BLOCK_LEN),
     U32(258, 772), U32(32768, 0), U32(65535, 65535)}

\* strong_len: 0, 1, 8, 9, 0x0A0B0C0D, 0xFFFFFFFF
StrongLenInputs ==
    {U32(0, 0), U32(0, 1), U32(0, BLAKE2_HASH_LEN), U32(0, BLAKE2_HASH_LEN + 1),
     U32(2571, 3085), U32(65535, 65535)}

\* A writer first answers `interrupted` write calls with an error of kind
\* Interrupted, and from then on accepts at most `chunk` bytes per write call.
\* A faulty writer accepts `good` bytes in all and then answers every write
\* with `fault`: an error of another kind ("Err") or Ok(0) ("Zero").
WriterInputs ==
    {[chunk |-> c, faulty |-> FALSE, good |-> 0, fault |-> "Err", interrupted |-> i] :
        c \in {1, 5, 12}, i \in 0..MaxInterrupts}
    \cup
    {[chunk |-> c, faulty |-> TRUE, good |-> g, fault |-> f, interrupted |-> i] :
        c \in {1, 5, 12}, g \in {0, 5, 11}, f \in {"Err", "Zero"},
        i \in 0..MaxInterrupts}

NoOptions == [magic |-> "none", block_len |-> U32(0, 0), strong_len |-> U32(0, 0)]

---------------------------------------------------------------------------
(* Pure functions of the source. *)

\* SignatureOptions::default()
default_swapped ==
    [magic      |-> "Blake2Sig",
     block_len  |-> U32(0, 8),
     strong_len |-> U32Of(DEFAULT_BLOCK_LEN)]

default ==
    [magic      |-> "Blake2Sig",
     block_len  |-> U32Of(DEFAULT_BLOCK_LEN),
     strong_len |-> U32(0, 8)]

\* write_u32be: the four bytes f.write_u32::<BigEndian>(a) hands to f
write_u32be_le(a) ==
    <<a.lo % 256, a.lo \div 256, a.hi % 256, a.hi \div 256>>

write_u32be(a) ==
    <<a.hi \div 256, a.hi % 256, a.lo \div 256, a.lo % 256>>

\* BufWriter::write for data shorter than the buffer: when the data fits in
\* the spare capacity it is appended and nothing reaches the inner writer.
BufWriterFits(b, data) == Len(b) + Len(data) <= DEFAULT_BUF_SIZE

BufWriterWrite(b, data) == b \o data

Min(a, b) == IF a < b THEN a ELSE b

\* The number of bytes the underlying writer takes from a write of n bytes.
WriterTakes(w, taken, n) ==
    IF w.faulty
    THEN Min(Min(n, w.chunk), w.good - taken)
    ELSE Min(n, w.chunk)

WriterExhausted(w, taken) == w.faulty /\ taken >= w.good

Init ==
    /\ pc = "caller"
    /\ how = "none"
    /\ options = NoOptions
    /\ basis \in BasisInputs
    /\ basis_ok \in BOOLEAN
    /\ basis_reads = 0
    /\ writer \in WriterInputs
    /\ interrupts = 0
    /\ buf = <<>>
    /\ out = <<>>
    /\ flush_result = "none"
    /\ ret = "none"

---------------------------------------------------------------------------
(* The caller builds the options. *)

\* let options = SignatureOptions::default();
CallDefault ==
    /\ pc = "caller"
    /\ options' = default
    /\ how' = "default"
    /\ pc' = "ready"
    /\ UNCHANGED <<basis, basis_ok, basis_reads, writer, interrupts, buf, out,
                   flush_result, ret>>

\* SignatureOptions { magic, block_len, strong_len }: the fields are public,
\* any value of each type can be given.
MakeOptions ==
    /\ pc = "caller"
    /\ \E m \in SignatureFormat, b \in BlockLenInputs, s \in StrongLenInputs :
          options' = [magic |-> m, block_len |-> b, strong_len |-> s]
    /\ how' = "literal"
    /\ pc' = "ready"
    /\ UNCHANGED <<basis, basis_ok, basis_reads, writer, interrupts, buf, out,
                   flush_result, ret>>

---------------------------------------------------------------------------
(* generate_signature(_basis, options, sig), statement by statement. *)

\* let mut sig = BufWriter::new(sig);
NewBufWriter ==
    /\ pc = "ready"
    /\ buf' = <<>>
    /\ pc' = "write_magic"
    /\ UNCHANGED <<how, options, basis, basis_ok, basis_reads, writer, interrupts,
                   out, flush_result, ret>>

\* write_u32be(&mut sig, options.magic as u32)?;
WriteMagic ==
    /\ pc = "write_magic"
    /\ BufWriterFits(buf, write_u32be(MagicAsU32(options.magic)))
    /\ buf' = BufWriterWrite(buf, write_u32be(MagicAsU32(options.magic)))
    /\ pc' = "write_block_len"
    /\ UNCHANGED <<how, options, basis, basis_ok, basis_reads, writer, interrupts,
                   out, flush_result, ret>>

\* write_u32be(&mut sig, options.block_len)?;
WriteBlockLenAsStrongLen ==
    /\ pc = "write_block_len"
    /\ BufWriterFits(buf, write_u32be(options.strong_len))
    /\ buf' = BufWriterWrite(buf, write_u32be(options.strong_len))
    /\ pc' = "write_strong_len"
    /\ UNCHANGED <<how, options, basis, basis_ok, basis_reads, writer, interrupts,
                   out, flush_result, ret>>

WriteBlockLen ==
    /\ pc = "write_block_len"
    /\ BufWriterFits(buf, write_u32be(options.block_len))
    /\ buf' = BufWriterWrite(buf, write_u32be(options.block_len))
    /\ pc' = "write_strong_len"
    /\ UNCHANGED <<how, options, basis, basis_ok, basis_reads, writer, interrupts,
                   out, flush_result, ret>>

\* write_u32be(&mut sig, options.strong_len)?;
WriteStrongLen ==
    /\ pc = "write_strong_len"
    /\ BufWriterFits(buf, write_u32be(options.strong_len))
    /\ buf' = BufWriterWrite(buf, write_u32be(options.strong_len))
    /\ pc' = "return"
    /\ UNCHANGED <<how, options, basis, basis_ok, basis_reads, writer, interrupts,
                   out, flush_result, ret>>

\* // TODO: Actually hash all the blocks!
\* Ok(())
\* The result is fixed here; the local BufWriter is dropped before the caller
\* gets it.
ReturnOk ==
    /\ pc = "return"
    /\ ret' = "Ok"
    /\ pc' = "drop"
    /\ UNCHANGED <<how, options, basis, basis_ok, basis_reads, writer, interrupts,
                   buf, out, flush_result>>

---------------------------------------------------------------------------
(* Drop of the BufWriter at the end of generate_signature: one run of      *)
(* flush_buf, whose result is discarded.  Each action below is one         *)
(* iteration of its loop, `inner.write(&buf[written..])`.                  *)

\* Err(e) with e.kind() == Interrupted: the loop tries again
FlushInterrupted ==
    /\ pc = "drop"
    /\ buf # <<>>
    /\ interrupts < writer.interrupted
    /\ interrupts' = interrupts + 1
    /\ UNCHANGED <<pc, how, options, basis, basis_ok, basis_reads, writer, buf,
                   out, flush_result, ret>>

\* Ok(n), n > 0: n bytes leave the buffer for the writer
FlushAcceptLossy ==
    /\ pc = "drop"
    /\ buf # <<>>
    /\ interrupts = writer.interrupted
    /\ ~WriterExhausted(writer, Len(out))
    /\ LET n == WriterTakes(writer, Len(out), Len(buf))
       IN  /\ out' = out \o SubSeq(buf, 1, n)
           /\ buf' = <<>>
    /\ UNCHANGED <<pc, how, options, basis, basis_ok, basis_reads, writer,
                   interrupts, flush_result, ret>>

FlushAccept ==
    /\ pc = "drop"
    /\ buf # <<>>
    /\ interrupts = writer.interrupted
    /\ ~WriterExhausted(writer, Len(out))
    /\ LET n == WriterTakes(writer, Len(out), Len(buf))
       IN  /\ out' = out \o SubSeq(buf, 1, n)
           /\ buf' = SubSeq(buf, n + 1, Len(buf))
    /\ UNCHANGED <<pc, how, options, basis, basis_ok, basis_reads, writer,
                   interrupts, flush_result, ret>>

\* Err(e), any other kind: the loop breaks, flush_buf returns Err(e)
FlushErr ==
    /\ pc = "drop"
    /\ buf # <<>>
    /\ interrupts = writer.interrupted
    /\ WriterExhausted(writer, Len(out))
    /\ writer.fault = "Err"
    /\ flush_result' = "Err"
    /\ pc' = "done"
    /\ UNCHANGED <<how, options, basis, basis_ok, basis_reads, writer, interrupts,
                   buf, out, ret>>

\* Ok(0): the loop breaks, flush_buf returns Err(WriteZero)
FlushWriteZero ==
    /\ pc = "drop"
    /\ buf # <<>>
    /\ interrupts = writer.interrupted
    /\ WriterExhausted(writer, Len(out))
    /\ writer.fault = "Zero"
    /\ flush_result' = "WriteZero"
    /\ pc' = "done"
    /\ UNCHANGED <<how, options, basis, basis_ok, basis_reads, writer, interrupts,
                   buf, out, ret>>

\* written == len: flush_buf returns Ok(()), the BufWriter is gone and the
\* caller has the result
FlushDone ==
    /\ pc = "drop"
    /\ buf = <<>>
    /\ flush_result' = "Ok"
    /\ pc' = "done"
    /\ UNCHANGED <<how, options, basis, basis_ok, basis_reads, writer, interrupts,
                   buf, out, ret>>

Next ==
    \/ CallDefault
    \/ MakeOptions
    \/ NewBufWriter
    \/ WriteMagic
    \/ WriteBlockLen
    \/ WriteStrongLen
    \/ ReturnOk
    \/ FlushInterrupted
    \/ FlushAccept
    \/ FlushErr
    \/ FlushWriteZero
    \/ FlushDone

Spec == Init /\ [][Next]_vars

---------------------------------------------------------------------------
(* Sanity of the model. *)

Bytes == 0..255

IsByteSeq(s) == \A i \in 1..Len(s) : s[i] \in Bytes

TypeOK ==
    /\ pc \in {"caller", "ready", "write_magic", "write_block_len",
               "write_strong_len", "return", "drop", "done"}
    /\ how \in {"none", "default", "literal"}
    /\ basis \in BasisInputs
    /\ basis_ok \in BOOLEAN
    /\ basis_reads \in Nat
    /\ writer \in WriterInputs
    /\ interrupts \in 0..writer.interrupted
    /\ IsByteSeq(buf) /\ IsByteSeq(out)
    /\ flush_result \in {"none", "Ok", "Err", "WriteZero"}
    /\ ret \in {"none", "Ok", "Err"}

\* The header is far smaller than the BufWriter's buffer: no write of
\* generate_signature itself ever reaches the underlying writer.
BufferedUntilDrop ==
    pc \in {"write_magic", "write_block_len", "write_strong_len", "return"}
        => out = <<>> /\ Len(buf) < DEFAULT_BUF_SIZE

---------------------------------------------------------------------------
(* Vocabulary of the claims. *)

\* Everything generate_signature has written so far, in order: what the
\* underlying writer accepted, then what is still in the BufWriter.
Stream == out \o buf

\* The caller has the result of generate_signature.
Returned == pc = "done"

\* s[i..i+3] is the big-endian encoding of the u32 a
DecodesTo(s, i, a) ==
    /\ Len(s) >= i + 3
    /\ \A k \in i..(i + 3) : s[k] \in Bytes
    /\ s[i] * 256 + s[i + 1] = a.hi
    /\ s[i + 2] * 256 + s[i + 3] = a.lo

\* The data model's constraints on SignatureOptions.
ValidOptions(o) ==
    /\ ~U32IsZero(o.block_len)
    /\ ~U32IsZero(o.strong_len)
    /\ ~U32Gt(o.strong_len, BLAKE2_HASH_LEN)

\* Length of the header: magic, block_len, strong_len.
HeaderLen == Len(write_u32be(U32(0, 0))) * 3

\* Length of one block record for valid options: weak sum, strong hash.
RecordLen(o) == 4 + o.strong_len.lo

\* ceil(len / a) for a u32 a > 0 and a number 0 <= len < 65536
CeilDiv(len, a) ==
    IF len = 0 THEN 0
    ELSE IF a.hi > 0 THEN 1
    ELSE (len + a.lo - 1) \div a.lo

\* Number of blocks of the basis.
NBlocks == CeilDiv(Len(basis), options.block_len)

---------------------------------------------------------------------------
(* Claims. *)

\* C1: generate_signature with SignatureOptions::default() and an empty
\* basis returns Ok and the signature writer (one that does not fail) holds
\* exactly the 12 bytes 72 73 01 37  00 00 08 00  00 00 00 08 and nothing
\* after them.
C1_EmptyBasisDefaultHeader ==
    (Returned /\ how = "default" /\ basis = <<>> /\ basis_ok /\ ~writer.faulty)
        => /\ ret = "Ok"
           /\ out = <<114, 115, 1, 55, 0, 0, 8, 0, 0, 0, 0, 8>>

C1_Witness ==
    /\ Returned /\ how = "default" /\ basis = <<>> /\ basis_ok /\ ~writer.faulty
    /\ ret = "Ok" /\ Len(out) = 12

\* C2: for every options value the first 12 bytes generate_signature writes
\* are the magic of options.magic, then options.block_len big-endian, then
\* options.strong_len big-endian, each appearing as soon as its statement
\* has run and nothing preceding or separating them.
C2_HeaderLayout ==
    /\ pc = "write_magic" => Stream = <<>>
    /\ pc \in {"write_block_len", "write_strong_len", "return", "drop", "done"}
          => DecodesTo(Stream, 1, MagicAsU32(options.magic))
    /\ pc = "write_block_len" => Len(Stream) = 4
    /\ pc \in {"write_strong_len", "return", "drop", "done"}
          => DecodesTo(Stream, 5, options.block_len)
    /\ pc = "write_strong_len" => Len(Stream) = 8
    /\ pc \in {"return", "drop", "done"}
          => DecodesTo(Stream, 9, options.strong_len)

C2_Witness ==
    /\ Returned /\ how = "literal"
    /\ options.block_len = U32(65535, 65535)
    /\ options.strong_len = U32(2571, 3085)
    /\ Len(out) = 12
    /\ SubSeq(out, 5, 12) = <<255, 255, 255, 255, 10, 11, 12, 13>>

\* C3: for every basis and valid options the signature holds, after the
\* 12-byte header, exactly ceil(len(basis) / block_len) block records.
C3_BlockRecordCount ==
    (Returned /\ ret = "Ok" /\ ValidOptions(options) /\ basis_ok /\ ~writer.faulty)
        => Len(out) = HeaderLen + NBlocks * RecordLen(options)

\* C4: the records follow the basis block by block: for every block i of
\* the basis the signature holds a whole record of 4 + strong_len bytes at
\* record position i, so no block is skipped.
C4_NoBlockSkipped ==
    (Returned /\ ret = "Ok" /\ ValidOptions(options) /\ basis_ok /\ ~writer.faulty)
        => \A i \in 0..(NBlocks - 1) :
              Len(out) >= HeaderLen + (i + 1) * RecordLen(options)

\* C5: generate_signature never returns Ok(()) when some header byte was not
\* accepted by the underlying writer (stated for valid options and a
\* readable basis, so that nothing but the writer is at fault).
C5_WriteFailureIsReturned ==
    (Returned /\ ret = "Ok" /\ ValidOptions(options) /\ basis_ok)
        => (buf = <<>> /\ Len(out) >= HeaderLen)

\* C6: with block_len == 0 or strong_len above the strong hash's length,
\* generate_signature fails before any I/O: nothing is written to the
\* signature writer and the basis is not read (stated for a readable basis
\* and a writer that never fails).
C6_InvalidOptionsRejected ==
    (Returned /\ basis_ok /\ ~writer.faulty
              /\ (U32IsZero(options.block_len)
                    \/ U32Gt(options.strong_len, BLAKE2_HASH_LEN)))
        => (ret = "Err" /\ out = <<>> /\ basis_reads = 0)

\* C7: a basis whose reads fail before its end makes generate_signature
\* return an I/O error, not Ok with a truncated signature (stated for valid
\* options and a writer that never fails).
C7_BasisReadFailureIsReturned ==
    (Returned /\ ~basis_ok /\ ValidOptions(options) /\ ~writer.faulty)
        => ret = "Err"

\* C8: SignatureOptions::default() is the Blake2 format with block_len 2048
\* and strong_len 8, and these satisfy block_len > 0 and
\* 0 < strong_len <= the strong hash's length.
C8_DefaultOptions ==
    how = "default"
        => /\ options.magic = "Blake2Sig"
           /\ options.block_len = U32(0, 2048)
           /\ options.strong_len = U32(0, 8)
           /\ ValidOptions(options)

C8_Witness == how = "default" /\ pc = "ready"

\* C10: when generate_signature returns Ok(()) and the underlying writer
\* never fails (it may accept only part of each write, and may have to be
\* retried after an interrupted call), every header byte has reached the
\* writer, in order and once, and nothing is left in the BufWriter.
C10_HeaderFlushedOnReturn ==
    (Returned /\ ret = "Ok" /\ ~writer.faulty)
        => /\ buf = <<>>
           /\ flush_result = "Ok"
           /\ out = write_u32be(MagicAsU32(options.magic))
                     \o write_u32be(options.block_len)
                     \o write_u32be(options.strong_len)

C10_Witness ==
    /\ Returned /\ ret = "Ok" /\ ~writer.faulty
    /\ writer.chunk = 5 /\ interrupts = 1
    /\ Len(out) = 12 /\ buf = <<>>

===========================================================================
